---- MODULE Spec2Model ----
(***************************************************************************)
(* Model of the comment-polling automation of the dashboard               *)
(* (automation/commentAutomator.js), with the two services it calls       *)
(* (services/youtubeApi.js, services/geminiApi.js) as remote calls whose   *)
(* outcome is chosen by the environment.                                   *)
(*                                                                         *)
(* A poll cycle is one invocation of the async function                    *)
(* checkForNewComments.  It suspends at three awaits: fetchComments,       *)
(* generateText and postComment.  Node runs everything between two awaits  *)
(* atomically, so every action below is one such run-to-next-await.        *)
(***************************************************************************)
EXTENDS Integers, Sequences, FiniteSets, Bags, TLC

\* ---------------------------------------------------------------- bounds
\* Largest number of poll cycles in flight at once (setInterval itself has no limit).
MaxCycles == 2
\* Largest number of comment threads in one fetch result.
MaxFetch == 2
\* Number of distinct timer handles the model tells apart.
MaxHandles == 2

\* ------------------------------------------------------------ input sets
\* The null handle (line 5: let monitoringInterval = null).
NULL == 0
\* A falsy argument (undefined or the empty string).
Missing == ""
NoSnippet == "no_snippet"

\* The arguments startMonitoring is called with: two valid configurations and
\* three calls that leave an argument out.
StartInputs ==
    { [token |-> "tokA", video |-> "vidA"],
      [token |-> "tokB", video |-> "vidB"],
      [token |-> Missing, video |-> "vidA"],
      [token |-> "tokA", video |-> Missing],
      [token |-> Missing, video |-> Missing] }

\* The commentThread resources the comment source may return.  c1 is a thread
\* as the platform normally sends it; t2 is a thread whose own id differs from
\* the id of its top-level comment; c3 has no snippet.
Threads ==
    { [id |-> "c1", top |-> "c1", author |-> "ann", text |-> "nice"],
      [id |-> "t2", top |-> "c2", author |-> "bob", text |-> "cool"],
      [id |-> "c3", top |-> NoSnippet, author |-> NoSnippet, text |-> NoSnippet] }

Handles == 1..MaxHandles

RECURSIVE SeqsUpTo(_, _)
SeqsUpTo(S, n) ==
    IF n = 0 THEN { <<>> }
    ELSE LET shorter == SeqsUpTo(S, n - 1)
         IN  shorter \cup
             { Append(s, x) : s \in { q \in shorter : Len(q) = n - 1 }, x \in S }

Distinct(s) == \A i, j \in 1..Len(s) : i # j => s[i] # s[j]

\* data.items of a successful commentThreads.list call: each thread at most once.
FetchResults == { s \in SeqsUpTo(Threads, MaxFetch) : Distinct(s) }

\* How a generateContent request can end: a candidate whose first part carries
\* text; fetch rejects; a non-OK status; a body without candidates, content or
\* parts; a candidate whose first part carries no text field.
GenOutcomes == { "ok", "transport_error", "http_error", "bad_shape", "no_text" }

\* ------------------------------------------------------------- variables
VARIABLES
    monitoringInterval,     \* the module's timer handle, or NULL
    lastCheckedCommentIds,  \* the module's Set of processed comment ids
    timers,                 \* Node's timer table: the armed intervals, each with the config its callback closes over
    cycles,                 \* bag of checkForNewComments invocations in flight
    logged,                 \* the console lines written by the latest step (errors, start/stop and no-comment notices)
    startResult,            \* what the latest step returned to the caller of startMonitoring, if it was one
    failedIds,              \* history: ids whose postComment call has failed
    settledIds,             \* history: ids whose postComment call has returned or thrown
    everSeen,               \* history: ids that have ever been in lastCheckedCommentIds
    rejected,               \* history: some cycle's promise was rejected
    userAccessTokens,       \* routes/auth.js: the access token stored for each user, or Missing
    sessions,               \* the number of logged-in sessions of each user
    httpResponse            \* the route and status of the response sent by the latest step, if it was a request

http == << userAccessTokens, sessions, httpResponse >>

vars == << monitoringInterval, lastCheckedCommentIds, timers, cycles,
           logged, startResult, failedIds, settledIds, everSeen, rejected,
           userAccessTokens, sessions, httpResponse >>

\* Largest number of sessions (browsers) a user is logged in with at a time.
MaxSessions == 2

\* The users of the dashboard and the access tokens the provider issues to them
\* (Missing: the strategy received none).
Users == { "u1" }
IssuedTokens == { "tokA", "tokB", Missing }
\* The videoId query parameter of a request.
QueryVideoIds == { "vidA", Missing }

NoResponse == [ route |-> "none", status |-> 0 ]

NoCall == [ called |-> FALSE, threw |-> FALSE, value |-> "none" ]

\* --------------------------------------------------- services/geminiApi.js
ErrorPlaceholder == "Error generating reply."
\* The JavaScript value undefined, where a string is expected.
Undefined == "<undefined>"
ShapePlaceholder == "Could not generate a reply."

\* The text the remote model produces for a prompt.
Generated(prompt) == "AI reply to: " \o prompt

\* generateText: every failure is caught inside and turned into a placeholder;
\* the text field of the first part is returned as it is read (lines 49-51).
generateText(prompt, outcome) ==
    CASE outcome = "ok" -> Generated(prompt)
      [] outcome = "no_text" -> Undefined
      [] outcome = "bad_shape" -> ShapePlaceholder
      [] OTHER -> ErrorPlaceholder

\* Whether the call to generateText throws into its caller.
generateTextThrows(outcome) == FALSE

\* What generateText writes with console.error.
generateTextLogs(outcome) ==
    IF outcome \in { "transport_error", "http_error" } THEN { "gemini_error" } ELSE {}

\* ------------------------------------------- automation/commentAutomator.js
Prompt(commentText) ==
    "Write a concise, friendly, and appreciative reply to the following YouTube comment on my video: \""
        \o commentText \o "\""

Template(authorDisplayName) == "Thanks for your comment, " \o authorDisplayName \o "!"

\* NewComments with the filtered list turned round.
NewCommentsReversed(comments, seen) ==
    LET kept == SelectSeq(comments, LAMBDA t : t.id \notin seen)
    IN  [ i \in 1..Len(kept) |-> kept[Len(kept) + 1 - i] ]

\* NewComments without the filter.
NewCommentsUnfiltered(comments, seen) == comments

\* Line 25: the threads whose id is not in the set.
NewComments(comments, seen) == SelectSeq(comments, LAMBDA t : t.id \notin seen)

\* Lines 3 and 48: the geminiApi module is loaded and exports generateText.
GeminiIntegrated == TRUE

\* ReplyText with a signature appended to what the generator returned.
ReplyTextSigned(thread, outcome) ==
    generateText(Prompt(thread.text), outcome) \o " (automated reply)"

\* Lines 45-54: the reply text after the generator call has settled: the default
\* reply unless generateText has resolved with a text.
ReplyText(thread, outcome) ==
    IF GeminiIntegrated /\ ~generateTextThrows(outcome)
    THEN generateText(Prompt(thread.text), outcome)
    ELSE Template(thread.author)

\* Recorded with the cleanup of lines 67-72 taken to the extreme: only the
\* newest id is kept.
RecordedEvicts(seen, thread) == { thread.top }

\* Line 64: the set after a comment has been processed.
Recorded(seen, thread) == seen \cup { thread.top }

\* Malformed for field reads that never throw.
MalformedNever(thread) == FALSE

\* Lines 34-37: reading the fields of a thread without snippet throws.
Malformed(thread) == thread.top = NoSnippet

\* OuterCatch without the try/catch around the body of checkForNewComments.
OuterCatchRethrows(threw) ==
    [ rejects |-> threw, logs |-> {} ]

\* Lines 74-76: what the outer catch makes of an exception thrown inside the cycle.
OuterCatch(threw) ==
    [ rejects |-> FALSE, logs |-> IF threw THEN { "cycle_error" } ELSE {} ]

\* PostFailureEscapes without the try/catch around the postComment call.
PostFailureEscapesUncaught(ok) == ~ok

\* Lines 56-61: whether a failed postComment leaves the loop.
PostFailureEscapes(ok) == FALSE

InFlight == BagToSet(cycles)
NumCycles == BagCardinality(cycles)
Replace(c, d) == (cycles (-) SetToBag({c})) (+) SetToBag({d})
Remove(c) == cycles (-) SetToBag({c})

\* A new invocation, suspended at the await of fetchComments (line 16).
\* History fields: seenAtStart, the ids in the set when the invocation began (once
\* the batch is known, those of them that are in the batch); genFailed, the
\* generator call for the current comment failed; retry, the postComment call in
\* flight was made for an id whose publish had already failed.
Launch(cfg) ==
    [ pc |-> "fetch", cfg |-> cfg, newComments |-> <<>>, outcomes |-> <<>>,
      replyText |-> "", genFailed |-> FALSE, retry |-> FALSE,
      seenAtStart |-> lastCheckedCommentIds ]

\* The thread the loop of cycle c is at.
Current(c) == c.newComments[Len(c.outcomes) + 1]

Composing(c) == c.pc \in { "generate", "publish" }

\* PublishRequest reading the configuration of the monitor that is active at
\* the time of the call instead of the invocation's own arguments.
PublishRequestCurrentConfig(c) ==
    LET live == { t \in timers : t.handle = monitoringInterval }
        cfg == IF live = {} THEN c.cfg ELSE (CHOOSE t \in live : TRUE).cfg
    IN  [ token |-> cfg.token, video |-> cfg.video,
          text |-> c.replyText, parent |-> Current(c).top ]

\* The request of the postComment call cycle c is waiting for (line 57).
PublishRequest(c) ==
    [ token |-> c.cfg.token, video |-> c.cfg.video,
      text |-> c.replyText, parent |-> Current(c).top ]

TopIds(batch) == { batch[i].top : i \in 1..Len(batch) }

\* The for-of loop of cycle c, with `done` comments of `batch` behind it, goes to
\* its next thread: it leaves the loop, or throws on a thread it cannot read, or
\* suspends in generateText.  `said` is what the step has logged so far.
Enter(c, batch, done, said) ==
    IF Len(done) >= Len(batch)
    THEN /\ cycles' = Remove(c)
         /\ logged' = said
         /\ UNCHANGED rejected
    ELSE IF Malformed(batch[Len(done) + 1])
    THEN /\ cycles' = Remove(c)
         /\ logged' = said \cup OuterCatch(TRUE).logs
         /\ rejected' = (rejected \/ OuterCatch(TRUE).rejects)
    ELSE /\ cycles' = Replace(c, [c EXCEPT !.pc = "generate", !.newComments = batch,
                                            !.outcomes = done, !.replyText = "",
                                            !.genFailed = FALSE, !.retry = FALSE,
                                            !.seenAtStart = c.seenAtStart \cap TopIds(batch)])
         /\ logged' = said
         /\ UNCHANGED rejected

\* clearInterval(handle) on the timer table.
ClearInterval(tm, handle) == { t \in tm : t.handle # handle }

\* ClearPrevious without the clearInterval call.
ClearPreviousKeeps(tm, handle) == tm

\* Lines 92-95: the timer table after startMonitoring has dealt with a previous interval.
ClearPrevious(tm, handle) ==
    IF handle # NULL THEN ClearInterval(tm, handle) ELSE tm

\* setInterval returns a handle that is not armed.
Armed(tm) == { t.handle : t \in tm }
FreshHandle(tm) == CHOOSE h \in Handles \ Armed(tm) : \A g \in Handles \ Armed(tm) : h <= g

\* Line 86: the guard of startMonitoring.
StartRejects(accessToken, videoId) == accessToken = Missing \/ videoId = Missing

\* Line 85: the default of the intervalMs parameter.
DefaultIntervalMs == 60000

\* Lines 88 and 101: what startMonitoring hands back to its caller.
StartReturn(accessToken, videoId) ==
    [ called |-> TRUE, threw |-> FALSE, value |-> "undefined" ]

Init ==
    /\ monitoringInterval = NULL
    /\ lastCheckedCommentIds = {}
    /\ timers = {}
    /\ cycles = EmptyBag
    /\ logged = {}
    /\ startResult = NoCall
    /\ failedIds = {}
    /\ settledIds = {}
    /\ everSeen = {}
    /\ rejected = FALSE
    /\ userAccessTokens = [ u \in Users |-> Missing ]
    /\ sessions = [ u \in Users |-> 0 ]
    /\ httpResponse = NoResponse

\* StartInvalid with the clearInterval of lines 92-95 ahead of the argument check.
StartInvalidClearsFirst(in) ==
    /\ StartRejects(in.token, in.video)
    /\ timers' = ClearPrevious(timers, monitoringInterval)
    /\ logged' = { "start_invalid" }
    /\ startResult' = StartReturn(in.token, in.video)
    /\ UNCHANGED << monitoringInterval, lastCheckedCommentIds, cycles,
                    failedIds, settledIds, everSeen, rejected >>

\* startMonitoring(accessToken, videoId) with a missing argument (lines 86-89).
StartInvalid(in) ==
    /\ StartRejects(in.token, in.video)
    /\ logged' = { "start_invalid" }
    /\ startResult' = StartReturn(in.token, in.video)
    /\ UNCHANGED << monitoringInterval, lastCheckedCommentIds, timers, cycles,
                    failedIds, settledIds, everSeen, rejected >>

\* StartValid that leaves a schedule it finds as it is: the initial check runs
\* with the new arguments, the armed interval keeps the old ones.
StartValidKeepsSchedule(in) ==
    /\ ~StartRejects(in.token, in.video)
    /\ NumCycles < MaxCycles
    /\ IF monitoringInterval # NULL
       THEN UNCHANGED << timers, monitoringInterval >>
       ELSE /\ Handles \ Armed(timers) # {}
            /\ LET h == FreshHandle(timers)
               IN  /\ timers' = timers \cup { [ handle |-> h, cfg |-> in,
                                                 intervalMs |-> DefaultIntervalMs ] }
                   /\ monitoringInterval' = h
    /\ cycles' = cycles (+) SetToBag({ Launch(in) })
    /\ logged' = {}
    /\ startResult' = StartReturn(in.token, in.video)
    /\ UNCHANGED << lastCheckedCommentIds, failedIds, settledIds, everSeen, rejected >>

\* StartValid without the initial check of line 98.
StartValidDeferred(in) ==
    /\ ~StartRejects(in.token, in.video)
    /\ NumCycles < MaxCycles
    /\ LET cleared == ClearPrevious(timers, monitoringInterval)
       IN  /\ Handles \ Armed(cleared) # {}
           /\ LET h == FreshHandle(cleared)
              IN  /\ timers' = cleared \cup { [ handle |-> h, cfg |-> in,
                                                 intervalMs |-> DefaultIntervalMs ] }
                  /\ monitoringInterval' = h
    /\ logged' = IF monitoringInterval # NULL THEN { "stopped_previous" } ELSE {}
    /\ startResult' = StartReturn(in.token, in.video)
    /\ UNCHANGED << cycles, lastCheckedCommentIds, failedIds, settledIds, everSeen, rejected >>

\* startMonitoring(accessToken, videoId), lines 91-100: a previous interval is
\* cleared, the initial check runs up to its first await, the interval is armed.
StartValid(in) ==
    /\ ~StartRejects(in.token, in.video)
    /\ NumCycles < MaxCycles
    /\ LET cleared == ClearPrevious(timers, monitoringInterval)
       IN  /\ Handles \ Armed(cleared) # {}
           /\ LET h == FreshHandle(cleared)
              IN  /\ timers' = cleared \cup { [ handle |-> h, cfg |-> in,
                                                 intervalMs |-> DefaultIntervalMs ] }
                  /\ monitoringInterval' = h
    /\ cycles' = cycles (+) SetToBag({ Launch(in) })
    /\ logged' = IF monitoringInterval # NULL THEN { "stopped_previous" } ELSE {}
    /\ startResult' = StartReturn(in.token, in.video)
    /\ UNCHANGED << lastCheckedCommentIds, failedIds, settledIds, everSeen, rejected >>

startMonitoring == \E in \in StartInputs : StartInvalid(in) \/ StartValid(in)

\* stopMonitoring that also empties the set of processed ids.
stopMonitoringResets ==
    /\ timers' = ClearInterval(timers, monitoringInterval)
    /\ monitoringInterval' = NULL
    /\ logged' = IF monitoringInterval # NULL THEN { "stopped" } ELSE { "no_active" }
    /\ lastCheckedCommentIds' = {}
    /\ startResult' = NoCall
    /\ UNCHANGED << cycles, failedIds, settledIds, everSeen, rejected >>

\* stopMonitoring that forgets the handle without clearInterval.
stopMonitoringKeepsTimer ==
    /\ monitoringInterval' = NULL
    /\ logged' = IF monitoringInterval # NULL THEN { "stopped" } ELSE { "no_active" }
    /\ startResult' = NoCall
    /\ UNCHANGED << timers, lastCheckedCommentIds, cycles, failedIds, settledIds,
                    everSeen, rejected >>

\* stopMonitoring(), lines 106-114.
stopMonitoring ==
    /\ IF monitoringInterval # NULL
       THEN /\ timers' = ClearInterval(timers, monitoringInterval)
            /\ monitoringInterval' = NULL
            /\ logged' = { "stopped" }
       ELSE /\ UNCHANGED << timers, monitoringInterval >>
            /\ logged' = { "no_active" }
    /\ startResult' = NoCall
    /\ UNCHANGED << lastCheckedCommentIds, cycles, failedIds, settledIds, everSeen, rejected >>

\* An armed interval fires: the callback of line 99 starts a cycle.
Tick(t) ==
    /\ t \in timers
    /\ NumCycles < MaxCycles
    /\ cycles' = cycles (+) SetToBag({ Launch(t.cfg) })
    /\ logged' = {}
    /\ startResult' = NoCall
    /\ UNCHANGED << monitoringInterval, lastCheckedCommentIds, timers, failedIds,
                    settledIds, everSeen, rejected >>

\* FetchFails with a catch block that also gives up monitoring.
FetchFailsStops(c) ==
    /\ c.pc = "fetch"
    /\ cycles' = Remove(c)
    /\ logged' = { "fetch_error" } \cup OuterCatch(TRUE).logs
    /\ rejected' = (rejected \/ OuterCatch(TRUE).rejects)
    /\ startResult' = NoCall
    /\ timers' = ClearInterval(timers, monitoringInterval)
    /\ monitoringInterval' = NULL
    /\ UNCHANGED << lastCheckedCommentIds, failedIds, settledIds, everSeen >>

\* fetchComments throws (youtubeApi.js lines 39-42; lines 16 and 74-76).
FetchFails(c) ==
    /\ c.pc = "fetch"
    /\ cycles' = Remove(c)
    /\ logged' = { "fetch_error" } \cup OuterCatch(TRUE).logs
    /\ rejected' = (rejected \/ OuterCatch(TRUE).rejects)
    /\ startResult' = NoCall
    /\ UNCHANGED << monitoringInterval, lastCheckedCommentIds, timers, failedIds,
                    settledIds, everSeen >>

\* fetchComments resolves with comments (lines 16-37).
FetchReturns(c, comments) ==
    /\ c.pc = "fetch"
    /\ IF Len(comments) = 0
       THEN /\ cycles' = Remove(c)
            /\ logged' = { "no_comments" }
            /\ UNCHANGED rejected
       ELSE LET newComments == NewComments(comments, lastCheckedCommentIds)
            IN  Enter(c, newComments, <<>>,
                      IF Len(newComments) = 0 THEN { "no_new_comments" } ELSE {})
    /\ startResult' = NoCall
    /\ UNCHANGED << monitoringInterval, lastCheckedCommentIds, timers, failedIds,
                    settledIds, everSeen >>

\* GenerateReturns with the add of line 64 moved before the postComment call.
GenerateReturnsRecordsFirst(c, outcome) ==
    /\ c.pc = "generate"
    /\ cycles' = Replace(c, [c EXCEPT !.pc = "publish",
                                      !.replyText = ReplyText(Current(c), outcome),
                                      !.genFailed = outcome \in { "transport_error", "http_error" },
                                      !.retry = Current(c).top \in failedIds])
    /\ lastCheckedCommentIds' = Recorded(lastCheckedCommentIds, Current(c))
    /\ logged' = generateTextLogs(outcome)
    /\ startResult' = NoCall
    /\ UNCHANGED << monitoringInterval, timers, failedIds, settledIds, everSeen, rejected >>

\* generateText settles and postComment is called (lines 48-57).
GenerateReturns(c, outcome) ==
    /\ c.pc = "generate"
    /\ cycles' = Replace(c, [c EXCEPT !.pc = "publish",
                                      !.replyText = ReplyText(Current(c), outcome),
                                      !.genFailed = outcome \in { "transport_error", "http_error" },
                                      !.retry = Current(c).top \in failedIds])
    /\ logged' = generateTextLogs(outcome)
    /\ startResult' = NoCall
    /\ UNCHANGED << monitoringInterval, lastCheckedCommentIds, timers, failedIds,
                    settledIds, everSeen, rejected >>

\* postComment settles (lines 56-65), then the loop goes on.
PostCommentReturns(c, ok) ==
    /\ c.pc = "publish"
    /\ failedIds' = IF ok THEN failedIds ELSE failedIds \cup { Current(c).top }
    /\ settledIds' = settledIds \cup { Current(c).top }
    /\ IF ~ok /\ PostFailureEscapes(ok)
       THEN /\ cycles' = Remove(c)
            /\ logged' = { "post_error" } \cup OuterCatch(TRUE).logs
            /\ rejected' = (rejected \/ OuterCatch(TRUE).rejects)
            /\ UNCHANGED lastCheckedCommentIds
       ELSE /\ lastCheckedCommentIds' = Recorded(lastCheckedCommentIds, Current(c))
            /\ Enter(c, c.newComments, Append(c.outcomes, IF ok THEN "ok" ELSE "failed"),
                     IF ok THEN {} ELSE { "post_error", "post_failed" })
    /\ everSeen' = everSeen \cup lastCheckedCommentIds'
    /\ startResult' = NoCall
    /\ UNCHANGED << monitoringInterval, timers >>

\* A step that is not the handling of a request: no response is sent, and the
\* token store and the sessions are not touched.
NoRequest == httpResponse' = NoResponse /\ UNCHANGED << userAccessTokens, sessions >>

Next ==
    \/ startMonitoring /\ NoRequest
    \/ stopMonitoring /\ NoRequest
    \/ \E t \in timers : Tick(t) /\ NoRequest
    \/ \E c \in InFlight : FetchFails(c) /\ NoRequest
    \/ \E c \in InFlight, r \in FetchResults : FetchReturns(c, r) /\ NoRequest
    \/ \E c \in InFlight, o \in GenOutcomes : GenerateReturns(c, o) /\ NoRequest
    \/ \E c \in InFlight, ok \in BOOLEAN : PostCommentReturns(c, ok) /\ NoRequest

Spec == Init /\ [][Next]_vars

\* ------------------------------------------------ server.js and routes/auth.js
\* A request handler that does not call the automator leaves the monitor alone.
MonitorUntouched ==
    /\ logged' = {}
    /\ startResult' = NoCall
    /\ UNCHANGED << monitoringInterval, lastCheckedCommentIds, timers, cycles,
                    failedIds, settledIds, everSeen, rejected >>

Response(route, status) == [ route |-> route, status |-> status ]

\* req.isAuthenticated(): the request carries the cookie of a logged-in session
\* of user u.  Only a user with a session can send such a request.
CanSend(u, authenticated) == authenticated => sessions[u] > 0

\* GET /auth/google/callback (routes/auth.js lines 28-43) after the provider has
\* authenticated user u and the strategy has received accessToken.
LoginCallback(u, accessToken) ==
    /\ sessions[u] < MaxSessions
    /\ sessions' = [sessions EXCEPT ![u] = @ + 1]
    /\ userAccessTokens' = IF accessToken # Missing
                            THEN [userAccessTokens EXCEPT ![u] = accessToken]
                            ELSE userAccessTokens
    /\ httpResponse' = Response("/auth/google/callback", 302)
    /\ MonitorUntouched

\* Logout that also stops the monitor.
LogoutStopsMonitoring(u, authenticated) ==
    /\ CanSend(u, authenticated)
    /\ userAccessTokens' = IF authenticated
                            THEN [userAccessTokens EXCEPT ![u] = Missing]
                            ELSE userAccessTokens
    /\ sessions' = IF authenticated THEN [sessions EXCEPT ![u] = @ - 1] ELSE sessions
    /\ httpResponse' = Response("/auth/logout", 302)
    /\ stopMonitoring

\* GET /auth/logout (routes/auth.js lines 46-61).
Logout(u, authenticated) ==
    /\ CanSend(u, authenticated)
    /\ userAccessTokens' = IF authenticated
                            THEN [userAccessTokens EXCEPT ![u] = Missing]
                            ELSE userAccessTokens
    /\ sessions' = IF authenticated THEN [sessions EXCEPT ![u] = @ - 1] ELSE sessions
    /\ httpResponse' = Response("/auth/logout", 302)
    /\ MonitorUntouched

\* StartAutomation without the access token check of lines 97-99.
StartAutomationNoTokenCheck(u, authenticated, videoId) ==
    /\ CanSend(u, authenticated)
    /\ IF ~authenticated
       THEN httpResponse' = Response("/start-automation", 302) /\ MonitorUntouched
       ELSE IF videoId = Missing
       THEN httpResponse' = Response("/start-automation", 400) /\ MonitorUntouched
       ELSE LET in == [ token |-> userAccessTokens[u], video |-> videoId ]
            IN  /\ StartInvalid(in) \/ StartValid(in)
                /\ httpResponse' = Response("/start-automation",
                                            IF startResult'.threw THEN 500 ELSE 200)
    /\ UNCHANGED << userAccessTokens, sessions >>

\* GET /start-automation (server.js lines 81-87 and 90-108).
StartAutomation(u, authenticated, videoId) ==
    /\ CanSend(u, authenticated)
    /\ IF ~authenticated
       THEN httpResponse' = Response("/start-automation", 302) /\ MonitorUntouched
       ELSE IF videoId = Missing
       THEN httpResponse' = Response("/start-automation", 400) /\ MonitorUntouched
       ELSE IF userAccessTokens[u] = Missing
       THEN httpResponse' = Response("/start-automation", 401) /\ MonitorUntouched
       ELSE LET in == [ token |-> userAccessTokens[u], video |-> videoId ]
            IN  /\ StartInvalid(in) \/ StartValid(in)
                /\ httpResponse' = Response("/start-automation",
                                            IF startResult'.threw THEN 500 ELSE 200)
    /\ UNCHANGED << userAccessTokens, sessions >>

\* GET /stop-automation (server.js lines 110-113): no middleware in front.
StopAutomation(u, authenticated) ==
    /\ CanSend(u, authenticated)
    /\ stopMonitoring
    /\ httpResponse' = Response("/stop-automation", 200)
    /\ UNCHANGED << userAccessTokens, sessions >>

\* The fetch results of the server specification: at most one thread.
HttpFetchResults == { r \in FetchResults : Len(r) <= 1 }

HttpNext ==
    \/ \E u \in Users, tok \in IssuedTokens : LoginCallback(u, tok)
    \/ \E u \in Users, a \in BOOLEAN : Logout(u, a)
    \/ \E u \in Users, a \in BOOLEAN, v \in QueryVideoIds : StartAutomation(u, a, v)
    \/ \E u \in Users, a \in BOOLEAN : StopAutomation(u, a)
    \/ \E t \in timers : Tick(t) /\ NoRequest
    \/ \E c \in InFlight : FetchFails(c) /\ NoRequest
    \/ \E c \in InFlight, r \in HttpFetchResults : FetchReturns(c, r) /\ NoRequest
    \/ \E c \in InFlight, o \in GenOutcomes : GenerateReturns(c, o) /\ NoRequest
    \/ \E c \in InFlight, ok \in BOOLEAN : PostCommentReturns(c, ok) /\ NoRequest

HttpSpec == Init /\ [][HttpNext]_vars

\* ---------------------------------------------------- the monitor under fairness
\* The comment the liveness claim follows: thread c1, which every successful
\* fetch keeps returning.
Followed == "c1"
LiveFetchResults == { r \in FetchResults : \E i \in 1..Len(r) : r[i].id = Followed }

LiveNext ==
    \/ startMonitoring /\ NoRequest
    \/ stopMonitoring /\ NoRequest
    \/ \E t \in timers : Tick(t) /\ NoRequest
    \/ \E c \in InFlight : FetchFails(c) /\ NoRequest
    \/ \E c \in InFlight, r \in LiveFetchResults : FetchReturns(c, r) /\ NoRequest
    \/ \E c \in InFlight, o \in GenOutcomes : GenerateReturns(c, o) /\ NoRequest
    \/ \E c \in InFlight, ok \in BOOLEAN : PostCommentReturns(c, ok) /\ NoRequest

\* An armed interval keeps firing (line 99); every call to a remote service
\* settles; a fetch that is retried for ever succeeds at some time.
Fairness ==
    /\ WF_vars(\E t \in timers : Tick(t) /\ NoRequest)
    /\ WF_vars(\E c \in InFlight :
                  (FetchFails(c) \/ \E r \in LiveFetchResults : FetchReturns(c, r)) /\ NoRequest)
    /\ SF_vars(\E c \in InFlight, r \in LiveFetchResults : FetchReturns(c, r) /\ NoRequest)
    /\ WF_vars(\E c \in InFlight, o \in GenOutcomes : GenerateReturns(c, o) /\ NoRequest)
    /\ WF_vars(\E c \in InFlight, ok \in BOOLEAN : PostCommentReturns(c, ok) /\ NoRequest)

LiveSpec == Init /\ [][LiveNext]_vars /\ Fairness

\* ------------------------------------------------------------------ claims

\* C1. Idempotent dedup: once a cycle has recorded a comment in the set, no
\* cycle that starts afterwards composes or publishes a reply to it: the comment
\* a cycle is composing or publishing for was not in the set when that cycle began.
C1_IdempotentDedup ==
    \A c \in InFlight : Composing(c) => Current(c).top \notin c.seenAtStart

\* C2. No overlap: at most one poll cycle is in flight at any time.
C2_NoOverlap == NumCycles <= 1

\* C3. At-most-once attempt: a postComment call is made at most once for any
\* comment id.  Every earlier call for an id has either returned, and then the id
\* is in the set, or is still in flight; so a call in flight for an id is the only
\* one in flight for it and the id is not yet in the set.
C3_AtMostOnceAttempt ==
    \A c \in InFlight :
        c.pc = "publish" =>
            /\ Current(c).top \notin lastCheckedCommentIds
            /\ CopiesIn(c, cycles) = 1
            /\ \A d \in InFlight \ { c } :
                   d.pc = "publish" => Current(d).top # Current(c).top

\* C4. Single schedule: at most one interval is armed, it is the one
\* monitoringInterval names, and none is armed when monitoringInterval is null;
\* so a start() while Active leaves exactly one armed timer.
C4_SingleSchedule ==
    /\ Cardinality(timers) <= 1
    /\ Armed(timers) = IF monitoringInterval = NULL THEN {} ELSE { monitoringInterval }
    /\ "stopped_previous" \in logged => Cardinality(timers) = 1

\* A second start() has replaced the timer of the first.
C4_Witness ==
    /\ "stopped_previous" \in logged
    /\ Cardinality(timers) = 1
    /\ monitoringInterval \in Armed(timers)

\* C5. Cycle isolation: the step in which a cycle's fetch fails ends that cycle
\* without a compose or publish call, leaves the set, the timer table and the
\* handle as they were, lets no rejection escape, and an armed timer can fire
\* and start a new cycle afterwards.
C5_CycleIsolation ==
    /\ [][ "fetch_error" \in logged' =>
             /\ \E c \in InFlight : c.pc = "fetch" /\ cycles' = Remove(c)
             /\ lastCheckedCommentIds' = lastCheckedCommentIds
             /\ failedIds' = failedIds
             /\ timers' = timers
             /\ monitoringInterval' = monitoringInterval
             /\ ~rejected' ]_vars
    /\ []( ("fetch_error" \in logged /\ timers # {}) => ENABLED (\E t \in timers : Tick(t)) )

\* A fetch has just failed while a timer is armed.
C5_Witness == "fetch_error" \in logged /\ timers # {} /\ monitoringInterval # NULL

\* C6. Fallback composer: when the text generator has failed for a comment, the
\* reply published for it is the template "Thanks for your comment, {author}!".
C6_FallbackComposer ==
    \A c \in InFlight :
        (c.pc = "publish" /\ c.genFailed) =>
            PublishRequest(c).text = Template(Current(c).author)

\* C7. Only stop() disarms: a step that leaves no timer armed, or makes the
\* handle null, is a stopMonitoring call, and no cycle ever rejects.
C7_OnlyStopDisarms ==
    [][ /\ ~rejected'
        /\ ( \/ (monitoringInterval # NULL /\ monitoringInterval' = NULL)
             \/ (timers # {} /\ timers' = {}) ) => "stopped" \in logged' ]_vars

\* A cycle has just failed (fetch, unreadable thread or publish) and the timer
\* is still armed.
C7_Witness ==
    /\ logged \cap { "cycle_error", "post_failed" } # {}
    /\ monitoringInterval # NULL
    /\ timers # {}
    /\ ~rejected

\* C8. start() with a missing credential or content identifier reports a
\* validation failure to its caller (it throws, or returns something a
\* successful start does not), and runs no cycle and arms no timer.
C8_StartFailsFast ==
    [][ "start_invalid" \in logged' =>
          /\ startResult'.threw \/ startResult'.value # "undefined"
          /\ cycles' = cycles
          /\ timers' = timers
          /\ monitoringInterval' = monitoringInterval ]_vars

\* C9. A comment whose publish has failed is in the set, and no publish is
\* attempted for it after the failure, in the same cycle or a later one.
C9_FailedPublishSkipped ==
    /\ failedIds \subseteq lastCheckedCommentIds
    /\ \A c \in InFlight : c.pc = "publish" => ~c.retry

\* C10. Failure isolation: the step in which a publish fails records the
\* comment and, unless the batch is finished or its next thread is unreadable,
\* leaves the same cycle composing for the next comment of the batch; the step in
\* which the generator fails leaves the cycle publishing for the same comment;
\* neither touches the timer or rejects.
C10_FailureIsolation ==
    [][ /\ "post_error" \in logged' =>
             \E c \in InFlight :
                 /\ c.pc = "publish"
                 /\ Current(c).top \in lastCheckedCommentIds'
                 /\ LET done == Append(c.outcomes, "failed")
                    IN  IF Len(done) < Len(c.newComments) /\ ~Malformed(c.newComments[Len(done) + 1])
                        THEN \E d \in BagToSet(cycles') :
                                 /\ cycles' = Replace(c, d)
                                 /\ d.pc = "generate"
                                 /\ d.newComments = c.newComments
                                 /\ d.outcomes = done
                        ELSE cycles' = Remove(c)
        /\ "gemini_error" \in logged' =>
             \E c \in InFlight, d \in BagToSet(cycles') :
                 /\ c.pc = "generate"
                 /\ cycles' = Replace(c, d)
                 /\ d.pc = "publish"
                 /\ d.newComments = c.newComments
                 /\ d.outcomes = c.outcomes
        /\ ("post_error" \in logged' \/ "gemini_error" \in logged') =>
             /\ timers' = timers
             /\ monitoringInterval' = monitoringInterval
             /\ ~rejected' ]_vars

\* The publish for the first comment of a batch has failed and the cycle is at
\* the second comment, with the timer armed.
C10_Witness ==
    \E c \in InFlight :
        /\ Composing(c)
        /\ Len(c.outcomes) >= 1
        /\ c.outcomes[1] = "failed"
        /\ timers # {}

\* The positions of `comments` whose id is not in `seen`.
KeptPositions(comments, seen) == { i \in 1..Len(comments) : comments[i].id \notin seen }

\* `batch` holds exactly the threads of `comments` whose id is not in `seen`,
\* in the order they have in `comments`.
IsFilterInOrder(batch, comments, seen) ==
    LET kept == KeptPositions(comments, seen)
    IN  /\ Len(batch) = Cardinality(kept)
        /\ \A i \in kept : batch[Cardinality({ j \in kept : j <= i })] = comments[i]

\* An invocation that is in state d after the step and was not before it.
Arrives(d) == CopiesIn(d, cycles') > CopiesIn(d, cycles)

\* C11. Order preservation: the batch a cycle works on is the fetched list
\* filtered by the set, in the order of the fetched list; the cycle starts
\* composing for its first comment when the filter is done and for comment i+1
\* only in the step in which the publish for comment i settles, and it calls
\* publish for a comment only when compose for that same comment has settled.
C11_OrderPreservation ==
    [][ /\ \A c \in InFlight, r \in FetchResults, d \in BagToSet(cycles') :
              (FetchReturns(c, r) /\ Arrives(d))
                  => /\ IsFilterInOrder(d.newComments, r, lastCheckedCommentIds)
                     /\ d.pc = "generate" /\ d.outcomes = << >>
        /\ \A d \in BagToSet(cycles') :
              (Arrives(d) /\ d.pc = "generate")
                  => \E c \in InFlight :
                        /\ cycles' = Replace(c, d)
                        /\ \/ c.pc = "fetch" /\ d.outcomes = << >>
                           \/ /\ c.pc = "publish"
                              /\ d.newComments = c.newComments
                              /\ Len(d.outcomes) = Len(c.outcomes) + 1
        /\ \A d \in BagToSet(cycles') :
              (Arrives(d) /\ d.pc = "publish")
                  => \E c \in InFlight :
                        /\ cycles' = Replace(c, d)
                        /\ c.pc = "generate"
                        /\ d.newComments = c.newComments
                        /\ d.outcomes = c.outcomes
      ]_vars

\* A cycle composes for the second comment of a batch of two after the publish
\* for the first one has failed.
C11_Witness ==
    \E c \in InFlight :
        /\ c.pc = "generate"
        /\ Len(c.newComments) = 2 /\ c.newComments[1].id = "c1" /\ c.newComments[2].id = "t2"
        /\ c.outcomes = << "failed" >>

\* A continuation of invocation c runs.
CycleStep(c) ==
    \/ FetchFails(c)
    \/ \E r \in FetchResults : FetchReturns(c, r)
    \/ \E o \in GenOutcomes : GenerateReturns(c, o)
    \/ \E ok \in BOOLEAN : PostCommentReturns(c, ok)

\* C12. Cooperative cancellation: a stop that finds a monitor disarms the timer
\* and leaves the invocations in flight and the set as they are; while no
\* monitor is active a new invocation is launched only by a start; the set
\* changes only by a settled publish adding the id of the comment it was for;
\* and an invocation in flight can always take its next step, stopped or not.
C12_CooperativeCancellation ==
    /\ [][ /\ "stopped" \in logged'
                => /\ timers' = {} /\ monitoringInterval' = NULL
                   /\ cycles' = cycles
                   /\ lastCheckedCommentIds' = lastCheckedCommentIds
           /\ (monitoringInterval = NULL /\ NumCycles' > NumCycles)
                => startResult'.called /\ monitoringInterval' # NULL
           /\ lastCheckedCommentIds' # lastCheckedCommentIds
                => \E c \in InFlight :
                      /\ c.pc = "publish"
                      /\ CopiesIn(c, cycles') < CopiesIn(c, cycles)
                      /\ lastCheckedCommentIds' = lastCheckedCommentIds \cup { Current(c).top }
         ]_vars
    /\ [](\A c \in InFlight : ENABLED CycleStep(c))

\* With the monitor stopped and no timer armed, a publish of an invocation that
\* was in flight at the stop has just failed and its id is in the set.
C12_Witness ==
    /\ monitoringInterval = NULL /\ timers = {}
    /\ "post_failed" \in logged
    /\ failedIds # {} /\ failedIds \subseteq lastCheckedCommentIds

\* C13. The set grows monotonically: every id that has ever been in the set is
\* in it, whatever has happened since (cycles, failed fetches, failed
\* publishes, start, stop, restart with another configuration).
C13_MonotoneSeen == everSeen \subseteq lastCheckedCommentIds

\* A start from the stopped state (so after a stop) returns with both comments
\* still in the set.
C13_Witness ==
    /\ startResult.called /\ "start_invalid" \notin logged /\ "stopped_previous" \notin logged
    /\ monitoringInterval # NULL
    /\ lastCheckedCommentIds = { "c1", "c2" }

C15_StopIdempotent ==
    /\ [][ /\ "no_active" \in logged'
                => /\ monitoringInterval = NULL
                   /\ UNCHANGED << monitoringInterval, timers, cycles,
                                   lastCheckedCommentIds, failedIds, rejected >>
           /\ ("stopped" \in logged' \/ "no_active" \in logged')
                => /\ monitoringInterval' = NULL /\ timers' = {}
                   /\ lastCheckedCommentIds' = lastCheckedCommentIds
                   /\ ~rejected' /\ ~startResult'.threw
         ]_vars
    /\ [](ENABLED stopMonitoring)

\* A stop has just found no monitor, after an earlier start and stop: comments
\* are in the set and nothing is armed.
C15_Witness ==
    /\ "no_active" \in logged
    /\ lastCheckedCommentIds # {}
    /\ monitoringInterval = NULL /\ timers = {}

\* The step launches exactly one invocation, with configuration cfg, and leaves
\* it suspended in its fetch; the invocations already in flight stay as they are.
LaunchesOne(cfg) ==
    \E d \in BagToSet(cycles') :
        /\ d.pc = "fetch" /\ d.cfg = cfg
        /\ cycles' = cycles (+) SetToBag({ d })

\* C16. A valid start has, when it returns, armed a timer of 60000 ms under the
\* handle it keeps and launched one invocation, which is still suspended in its
\* fetch; any other step that launches an invocation is the tick of an armed
\* timer, launches exactly one, with that timer's configuration, and leaves the
\* timer armed; an armed timer can tick (as long as the model's cap on
\* invocations in flight allows); nothing is launched once no timer is armed.
C16_ImmediateThenPeriodic ==
    /\ [][ /\ (startResult'.called /\ "start_invalid" \notin logged')
                => \E t \in timers' :
                      /\ t.handle = monitoringInterval'
                      /\ t.intervalMs = 60000
                      /\ LaunchesOne(t.cfg)
                      /\ ~startResult'.threw
           /\ (NumCycles' > NumCycles /\ ~startResult'.called)
                => \E t \in timers :
                      /\ LaunchesOne(t.cfg)
                      /\ timers' = timers
                      /\ monitoringInterval' = monitoringInterval
         ]_vars
    /\ []((timers # {} /\ NumCycles < MaxCycles) => ENABLED (\E t \in timers : Tick(t)))

\* A valid start has just returned: its timer is armed and its own invocation
\* is suspended in the fetch, beside one launched earlier.
C16_Witness ==
    /\ startResult.called /\ "start_invalid" \notin logged
    /\ \E t \in timers, c \in InFlight :
          /\ t.handle = monitoringInterval
          /\ c.pc = "fetch" /\ c.cfg = t.cfg /\ c.seenAtStart = lastCheckedCommentIds
    /\ NumCycles = 2

\* C17. The id tested by the filter and the id recorded after processing
\* identify the same comment: no thread of a cycle's newComments has a top-level
\* comment whose id was in the set when that cycle began.
C17_FilterKeyIsRecordKey ==
    \A c \in InFlight :
        \A i \in 1..Len(c.newComments) : c.newComments[i].top \notin c.seenAtStart

\* C18. Every id in the set is the id of a comment whose publish call has
\* already returned or thrown: an id is never added before its publish has
\* settled and never for a comment no publish was called for.
C18_RecordedAfterPublish == lastCheckedCommentIds \subseteq settledIds

\* Two comments are in the set, one after a publish that succeeded and one
\* after a publish that failed.
C18_Witness ==
    /\ lastCheckedCommentIds = { "c1", "c2" }
    /\ settledIds = { "c1", "c2" }
    /\ failedIds = { "c2" }

\* C19. The reply composer never raises and always yields text: whatever the
\* outcome of the generator call, the cycle goes on to the publish call for the
\* same comment, and the text every publish call is made with is a text.
C19_ComposerYieldsText ==
    \A c \in InFlight :
        /\ c.pc = "generate" => \A o \in GenOutcomes : ENABLED GenerateReturns(c, o)
        /\ c.pc = "publish" => PublishRequest(c).text \notin { Undefined, "" }

\* The valid configurations startMonitoring can be called with.
ValidConfigs == { in \in StartInputs : ~StartRejects(in.token, in.video) }

\* C20. Every publish call of a cycle is a reply to the top-level comment of the
\* thread the cycle is at, made with the credential and the video id the cycle
\* was launched with, which are those of a valid start; a start with another
\* configuration does not change what a cycle in flight publishes with.
C20_PublishUsesLaunchConfig ==
    \A c \in InFlight :
        c.pc = "publish"
            => /\ c.cfg \in ValidConfigs
               /\ PublishRequest(c).parent = Current(c).top
               /\ PublishRequest(c).parent \notin { Missing, NoSnippet }
               /\ PublishRequest(c).token = c.cfg.token
               /\ PublishRequest(c).video = c.cfg.video

\* A cycle launched under one configuration is at its publish call while the
\* armed timer belongs to a later start with the other configuration.
C20_Witness ==
    \E c \in InFlight, t \in timers :
        /\ c.pc = "publish"
        /\ t.handle = monitoringInterval
        /\ t.cfg.token # c.cfg.token /\ t.cfg.video # c.cfg.video
        /\ PublishRequest(c).token = c.cfg.token

\* C21. Restart with a new configuration: whenever an invocation is launched,
\* by a start or by a tick, exactly one timer is armed when the step is over,
\* it is the one the module holds the handle of, and the invocation has that
\* timer's credential and video id.  After start(B) that timer is B's, so no
\* invocation launched from then on has A's.
C21_RestartUsesNewConfig ==
    [][ \A d \in BagToSet(cycles') :
            (Arrives(d) /\ d.pc = "fetch")
                => \E t \in timers' :
                      /\ timers' = { t }
                      /\ t.handle = monitoringInterval'
                      /\ d.cfg = t.cfg
      ]_vars

\* start(B) has just replaced the schedule of A: B's timer is the armed one,
\* B's initial invocation is suspended in its fetch and an invocation of A is
\* still in flight.
C21_Witness ==
    /\ "stopped_previous" \in logged
    /\ \E t \in timers, old \in InFlight, new \in InFlight :
          /\ t.handle = monitoringInterval
          /\ new.pc = "fetch" /\ new.cfg = t.cfg
          /\ old.cfg.token # t.cfg.token /\ old.cfg.video # t.cfg.video

\* Every thread of `comments` has its id in the set (none at all included).
AllSeen(comments) == \A i \in 1..Len(comments) : comments[i].id \in lastCheckedCommentIds

\* C22. A cycle whose fetch returns no threads, or only threads whose id is in
\* the set, ends in that step: it never waits for a compose or a publish call,
\* and the set, the timers, the handle and the histories of publish calls stay
\* as they are; nothing is logged but the notice and no promise is rejected.
C22_NoOpCycle ==
    [][ \A c \in InFlight, r \in FetchResults :
            (AllSeen(r) /\ FetchReturns(c, r))
                => /\ cycles' = Remove(c)
                   /\ logged' \in { { "no_comments" }, { "no_new_comments" } }
                   /\ UNCHANGED << lastCheckedCommentIds, timers, monitoringInterval,
                                   settledIds, failedIds, rejected >>
      ]_vars

\* A cycle has just found that every fetched thread is in the set, with the
\* monitor active.
C22_Witness ==
    /\ "no_new_comments" \in logged
    /\ lastCheckedCommentIds # {}
    /\ monitoringInterval # NULL /\ timers # {}

\* C23. A start that is turned down for a missing argument changes nothing:
\* timers, handle, invocations in flight and the set are as before, and a
\* timer that was armed can still tick (as long as the model's cap on
\* invocations in flight allows).
C23_RejectedStartChangesNothing ==
    /\ [][ "start_invalid" \in logged'
              => UNCHANGED << timers, monitoringInterval, cycles, lastCheckedCommentIds,
                              settledIds, failedIds, everSeen, rejected >>
         ]_vars
    /\ []( ("start_invalid" \in logged /\ timers # {} /\ NumCycles < MaxCycles)
              => ENABLED (\E t \in timers : Tick(t)) )

\* A start has just been turned down while a monitor is active and comments
\* are in the set.
C23_Witness ==
    /\ "start_invalid" \in logged /\ startResult.called
    /\ \E t \in timers : t.handle = monitoringInterval
    /\ lastCheckedCommentIds # {}

\* C24. A thread without snippet or top-level comment ends the cycle at that
\* thread.  The step in which the outer catch logs an exception that is not a
\* fetch failure removes one invocation: either its fetch has just returned
\* and the first new thread is unreadable, and then nothing is recorded; or a
\* publish has just settled and the next thread of the batch is unreadable,
\* and then the comments of the batch up to there are recorded.  Timers and
\* handle stay, no promise is rejected.  No invocation ever waits for a compose
\* or publish call for an unreadable thread, and none is ever recorded.
C24_MalformedThreadEndsCycle ==
    /\ [][ ("cycle_error" \in logged' /\ "fetch_error" \notin logged')
              => \E c \in InFlight :
                    /\ cycles' = Remove(c)
                    /\ UNCHANGED << timers, monitoringInterval >>
                    /\ ~rejected'
                    /\ \/ /\ c.pc = "fetch"
                          /\ lastCheckedCommentIds' = lastCheckedCommentIds
                          /\ \E r \in FetchResults :
                                LET batch == NewComments(r, lastCheckedCommentIds)
                                IN  /\ FetchReturns(c, r)
                                    /\ Len(batch) > 0 /\ batch[1].top = NoSnippet
                       \/ /\ c.pc = "publish"
                          /\ Len(c.newComments) >= Len(c.outcomes) + 2
                          /\ c.newComments[Len(c.outcomes) + 2].top = NoSnippet
                          /\ Current(c).top \in settledIds'
                          /\ TopIds(SubSeq(c.newComments, 1, Len(c.outcomes) + 1))
                                \subseteq lastCheckedCommentIds'
         ]_vars
    /\ [](/\ \A c \in InFlight : Composing(c) => Current(c).top # NoSnippet
          /\ NoSnippet \notin (lastCheckedCommentIds \cup settledIds))

\* The publish for a comment has just failed, the comment is recorded, and the
\* next thread of the batch has ended the cycle in the outer catch; the timer
\* is still armed.
C24_Witness ==
    /\ logged = { "post_error", "post_failed", "cycle_error" }
    /\ failedIds # {} /\ failedIds \subseteq lastCheckedCommentIds
    /\ \E t \in timers : t.handle = monitoringInterval
    /\ ~rejected

\* C26. On the primary path the text a publish call is made with is, character
\* for character, a value generateText returns for the prompt that embeds the
\* text of the comment the call is for; and unless the generator call failed
\* or found no usable candidate, it is the text the remote model produced.
C26_PrimaryPathVerbatim ==
    \A c \in InFlight :
        c.pc = "publish"
            => /\ PublishRequest(c).text \in
                     { generateText(Prompt(Current(c).text), o) : o \in GenOutcomes }
               /\ PublishRequest(c).text \notin { ErrorPlaceholder, ShapePlaceholder, Undefined }
                     => PublishRequest(c).text = Generated(Prompt(Current(c).text))

\* A publish call is pending with the text the remote model produced for the
\* prompt that embeds the comment "cool".
C26_Witness ==
    \E c \in InFlight :
        /\ c.pc = "publish"
        /\ Current(c).text = "cool"
        /\ ~c.genFailed
        /\ PublishRequest(c).text = Generated(Prompt("cool"))

\* C27. The text generator never throws past its own boundary and always
\* resolves with a string: whenever a generator call is pending, every way the
\* request can end makes generateText resolve, with a string, and with one of
\* the placeholders unless the remote model produced text.
C27_GeneratorAlwaysString ==
    \A c \in InFlight :
        c.pc = "generate"
            => \A o \in GenOutcomes :
                  /\ ~generateTextThrows(o)
                  /\ generateText(Prompt(Current(c).text), o) # Undefined
                  /\ o # "ok" => generateText(Prompt(Current(c).text), o)
                                    \in { ErrorPlaceholder, ShapePlaceholder }

\* C25. Liveness: if from some time on the monitor stays active, with no
\* further call of start or stop, then the comment that every successful fetch
\* returns eventually has a publish call settled for it and its id in the set.
C25_EventuallyProcessed ==
    <>[](monitoringInterval # NULL /\ ~startResult.called)
        => <>(Followed \in settledIds /\ Followed \in lastCheckedCommentIds)

\* C28. Logging out removes the user's token from the store and does not stop
\* a running monitor: the step that answers a logout of a logged-in user
\* leaves that user without a stored token and leaves timers, handle,
\* invocations in flight and the set as they are; an armed timer can still tick
\* (as long as the model's cap on invocations in flight allows), whatever the
\* store holds; and an invocation launched by a tick has the credential and
\* video id of the armed timer, those given to the start that armed it.
C28_LogoutLeavesMonitor ==
    /\ [][ /\ \A u \in Users :
                (httpResponse'.route = "/auth/logout" /\ sessions'[u] < sessions[u])
                    => /\ userAccessTokens'[u] = Missing
                       /\ UNCHANGED << timers, monitoringInterval, cycles,
                                       lastCheckedCommentIds >>
           /\ \A d \in BagToSet(cycles') :
                (Arrives(d) /\ d.pc = "fetch" /\ ~startResult'.called)
                    => \E t \in timers :
                          /\ d.cfg = t.cfg /\ d.cfg.token # Missing
                          /\ timers' = timers
         ]_vars
    /\ []((timers # {} /\ NumCycles < MaxCycles) => ENABLED (\E t \in timers : Tick(t)))

\* The user has logged out: no session and no stored token are left, while the
\* timer is still armed and an invocation is at its publish call with the
\* credential the monitor was started with.
C28_Witness ==
    /\ \A u \in Users : sessions[u] = 0 /\ userAccessTokens[u] = Missing
    /\ \E t \in timers, c \in InFlight :
          /\ t.handle = monitoringInterval
          /\ c.pc = "publish"
          /\ PublishRequest(c).token = t.cfg.token
          /\ PublishRequest(c).token = "tokA"

\* The monitor state a request handler can change.
monitor == << timers, monitoringInterval, cycles, lastCheckedCommentIds >>

\* C29. The /start-automation handler calls startMonitoring exactly for a
\* request that is authenticated, has a videoId and finds a stored token for
\* its user, and then with that token and that videoId; it answers 400 when
\* an authenticated request has no videoId, else 401 when no token is stored,
\* and an answer other than 200 leaves the monitor state as it is.  The
\* /stop-automation handler can be called by any request and always calls
\* stopMonitoring.
C29_HandlerGuards ==
    /\ [][ /\ \A u \in Users, a \in BOOLEAN, v \in QueryVideoIds :
                StartAutomation(u, a, v)
                    => /\ startResult'.called
                            <=> (a /\ v # Missing /\ userAccessTokens[u] # Missing)
                       /\ startResult'.called
                            => /\ httpResponse'.status = 200
                               /\ \E t \in timers' :
                                     /\ t.handle = monitoringInterval'
                                     /\ t.cfg = [ token |-> userAccessTokens[u], video |-> v ]
                       /\ (a /\ v = Missing) => httpResponse'.status = 400
                       /\ (a /\ v # Missing /\ userAccessTokens[u] = Missing)
                            => httpResponse'.status = 401
                       /\ httpResponse'.status # 200 => UNCHANGED monitor
           /\ startResult'.called => httpResponse'.route = "/start-automation"
           /\ httpResponse'.route = "/stop-automation"
                => /\ httpResponse'.status = 200
                   /\ logged' \in { { "stopped" }, { "no_active" } }
                   /\ monitoringInterval' = NULL /\ timers' = {}
         ]_vars
    /\ [](\A u \in Users, a \in BOOLEAN : CanSend(u, a) => ENABLED StopAutomation(u, a))

\* A logged-in user whose token is no longer stored has just been answered 401
\* by /start-automation while a monitor started earlier is still armed.
C29_Witness ==
    /\ httpResponse = Response("/start-automation", 401)
    /\ \E u \in Users : sessions[u] > 0 /\ userAccessTokens[u] = Missing
    /\ \E t \in timers : t.handle = monitoringInterval
====
